---------------------------- MODULE Spec2Model ----------------------------
(***************************************************************************)
(* A model of toupee's Model / OptimizerSchedule (src/toupee/model.py):    *)
(*   - Model.inject_layers      layer-graph editing                        *)
(*   - Model.copy_weights       positional weight transplantation          *)
(*   - OptimizerSchedule        epoch-indexed optimizer / learning rate     *)
(*   - OptimizerSchedulerCallback.on_epoch_end and Model.fit                *)
(*                                                                         *)
(* A layer name is a sequence of tokens, the pieces of the Python string   *)
(* between its hyphens: "autogenerated-X-<uuid>-0" is                      *)
(* <<"autogenerated", "X", <uuid>, "0">>.  The uuid is one token.          *)
(***************************************************************************)
EXTENDS Integers, Sequences, FiniteSets, TLC

VARIABLES
    layers,         \* model id -> self._model.get_config()['layers'], as [name, inbound]
    next_uuid,      \* how many uuid.uuid1() values the process has drawn, plus one
    call,           \* the last inject_layers call: its arguments and its outcome
    generated,      \* every name generated so far, in order of generation
    this_layers,    \* copy_weights: self._model.layers, as [name, weights]
    other_layers,   \* copy_weights: other_model._model.layers, as [name, weights]
    copy,           \* the last copy_weights call: its argument and the layers before it
    arg,            \* the params argument of OptimizerSchedule.__init__
    params,         \* OptimizerSchedule.params
    optimizers,     \* OptimizerSchedule.optimizers
    pc,             \* "idle" (no schedule), "new", "constructed", "training", "trained", "failed"
    phase,          \* within an epoch of fit: "begin" or "end"
    epoch,          \* the epoch fit is in
    active,         \* the optimizer the model is compiled with
    lr,             \* the learning rate of the active optimizer
    query           \* the last lookup made outside fit and what it returned

injectVars == <<layers, next_uuid, call, generated>>

copyVars == <<this_layers, other_layers, copy>>

scheduleVars == <<arg, params, optimizers, pc, phase, epoch, active, lr, query>>

vars == <<layers, next_uuid, call, generated, this_layers, other_layers, copy,
          arg, params, optimizers, pc, phase, epoch, active, lr, query>>

----------------------------------------------------------------------------
(* Bounds *)

MaxLayers == 3      \* layers of a freshly constructed model
MaxTemplate == 2    \* layers in one additional_layers argument
MaxCalls == 2       \* inject_layers calls in one chained run
MaxThreshold == 3   \* the largest epoch threshold of a schedule
MaxNested == 2      \* thresholds in a nested learning-rate map
MaxEpochs == 4      \* epochs of one fit run

----------------------------------------------------------------------------
(* Names *)

ModelIds == {1, 2}

\* Names of the layers of a freshly constructed model, by position.
BaseNames == <<"A", "B", "C", "D", "E">>

LayerName(i) == <<BaseNames[i]>>

\* The values uuid.uuid1() returns, in the order the process draws them.
Uuids == <<"u1", "u2", "u3", "u4", "u5">>

uuid1(n) == Uuids[n]

\* model.py:141-142, the conventional placeholder for the predecessor layer.
PREDECESSOR == <<"PREDECESSOR">>

\* A name no layer of any model carries.
AbsentName == <<"Z">>

\* The generated name without the position in the batch.
new_name_without_index(name, inject_uuid, i) ==
    <<"autogenerated">> \o name \o <<inject_uuid>>

\* model.py:144, f"autogenerated-{new_layer['name']}-{inject_uuid}-{i}"
new_name(name, inject_uuid, i) ==
    <<"autogenerated">> \o name \o <<inject_uuid>> \o <<ToString(i)>>

----------------------------------------------------------------------------
(* tp.utils.replace_inbound_layer: every entry equal to old becomes new. *)

replace_inbound_layer(inbound_nodes, old, new) ==
    [k \in 1..Len(inbound_nodes) |->
        IF inbound_nodes[k] = old THEN new ELSE inbound_nodes[k]]

----------------------------------------------------------------------------
(* replacement_mappings is a Python dict: insertion ordered, an assignment  *)
(* to an existing key keeps the key's place.  It is a sequence of           *)
(* <<key, value>> pairs.                                                    *)

DictSet(d, key, value) ==
    IF \E k \in 1..Len(d) : d[k][1] = key
    THEN [k \in 1..Len(d) |-> IF d[k][1] = key THEN <<key, value>> ELSE d[k]]
    ELSE Append(d, <<key, value>>)

\* Only the PREDECESSOR replacement, the first of the dict.
ApplyPredecessorOnly(inbound_nodes, mappings, k) ==
    replace_inbound_layer(inbound_nodes, mappings[1][1], mappings[1][2])

\* model.py:150-153, the replacements applied one after the other, in dict order.
RECURSIVE ApplyMappings(_, _, _)
ApplyMappings(inbound_nodes, mappings, k) ==
    IF k > Len(mappings) THEN inbound_nodes
    ELSE ApplyMappings(
            replace_inbound_layer(inbound_nodes, mappings[k][1], mappings[k][2]),
            mappings, k + 1)

\* model.py:143-155, the loop over enumerate(additional_layers), from index i on.
RECURSIVE RenameLayers(_, _, _, _)
RenameLayers(additional_layers, i, mappings, inject_uuid) ==
    IF i >= Len(additional_layers) THEN <<>>
    ELSE LET new_layer == additional_layers[i + 1]
             name == new_name(new_layer.name, inject_uuid, i)
             replacement_mappings == DictSet(mappings, new_layer.name, name)
             renamed == [name |-> name,
                         inbound |-> ApplyMappings(new_layer.inbound,
                                                   replacement_mappings, 1)]
         IN <<renamed>> \o RenameLayers(additional_layers, i + 1,
                                        replacement_mappings, inject_uuid)

\* The position of the first layer named predecessor, 0 when there is none.
AnchorIndex(ls, predecessor) ==
    IF \E k \in 1..Len(ls) : ls[k].name = predecessor
    THEN CHOOSE k \in 1..Len(ls) :
            /\ ls[k].name = predecessor
            /\ \A j \in 1..(k - 1) : ls[j].name # predecessor
    ELSE 0

\* The local last_new_layer before any assignment to it.
Unbound == <<>>

\* last_new_layer bound by the first pass of the inner loop only.
FirstNewLayer(new_layers) ==
    IF new_layers = <<>> THEN Unbound ELSE new_layers[1].name

\* model.py:155, last_new_layer once the inner loop has run over new_layers.
LastNewLayer(new_layers) ==
    IF new_layers = <<>> THEN Unbound ELSE new_layers[Len(new_layers)].name

\* last_new_layer as if it were initialised before the scan.
IsBoundAlways(v) == TRUE

\* model.py:158 and 167 read last_new_layer: Python raises UnboundLocalError
\* when no assignment has reached it.
IsBound(v) == v # Unbound

\* model.py:131-167.  The result: the layers self._model holds afterwards,
\* the outcome ("returned" or the exception raised) and the value returned.
inject_layers(ls, additional_layers, predecessor, inject_uuid) ==
    LET p == AnchorIndex(ls, predecessor)
        inserted == IF p = 0 THEN <<>>
                    ELSE RenameLayers(additional_layers, 0,
                                      <<<<PREDECESSOR, predecessor>>>>, inject_uuid)
        last_new_layer == LastNewLayer(inserted)
        \* line 158 runs for every layer after the anchor
        reads_at_158 == p # 0 /\ p < Len(ls)
        rest == IF p = 0 THEN <<>>
                ELSE [k \in 1..(Len(ls) - p) |->
                        [ls[p + k] EXCEPT !.inbound =
                            replace_inbound_layer(@, predecessor, last_new_layer)]]
        new_layers == IF p = 0 THEN ls ELSE SubSeq(ls, 1, p) \o inserted \o rest
        \* line 144, every name the inner loop generated
        new_names == [k \in 1..Len(inserted) |-> inserted[k].name]
    IN  IF reads_at_158 /\ ~IsBound(last_new_layer)
        THEN \* raised inside the scan: self._model is not reassigned
             [layers |-> ls, outcome |-> "UnboundLocalError",
              last_new_layer |-> Unbound, new_names |-> new_names]
        ELSE IF ~IsBound(last_new_layer)
        THEN \* line 161 rebuilds the model from new_layers, line 167 raises
             [layers |-> new_layers, outcome |-> "UnboundLocalError",
              last_new_layer |-> Unbound, new_names |-> new_names]
        ELSE [layers |-> new_layers, outcome |-> "returned",
              last_new_layer |-> last_new_layer, new_names |-> new_names]

----------------------------------------------------------------------------
(* Input sets *)

RECURSIVE SeqOfLayers(_)
SeqOfLayers(S) ==
    IF S = {} THEN <<>>
    ELSE LET m == CHOOSE x \in S : \A y \in S : x <= y
         IN <<LayerName(m)>> \o SeqOfLayers(S \ {m})

\* Valid graphs of k layers: unique names, every inbound entry an earlier layer.
Graphs(k) ==
    { [i \in 1..k |-> [name |-> LayerName(i), inbound |-> SeqOfLayers(g[i])]] :
        g \in { h \in [1..k -> SUBSET (1..k)] : \A i \in 1..k : h[i] \subseteq 1..(i - 1) } }

\* The chain A -> B -> ... of k layers.
Chain(k) ==
    [i \in 1..k |-> [name |-> LayerName(i),
                     inbound |-> IF i = 1 THEN <<>> ELSE <<LayerName(i - 1)>>]]

NamesOf(ls) == {ls[k].name : k \in 1..Len(ls)}

Templates(names, entries, maxlen) ==
    UNION { [1..n -> [name : names,
                      inbound : {<<>>} \cup {<<e>> : e \in entries}]] : n \in 0..maxlen }

\* Declared names of template layers: a fresh one and one an existing layer carries.
DeclNames == {<<"X">>, LayerName(1)}

\* What a template layer of SpecInject may name as its input.
Entries(ls) == {PREDECESSOR} \cup DeclNames \cup {ls[Len(ls)].name}

NoCall ==
    [model |-> 0, before |-> <<>>, additional_layers |-> <<>>, predecessor |-> <<>>,
     inject_uuid |-> "", outcome |-> "none", last_new_layer |-> <<>>]

NoCopy == [done |-> FALSE, early_stop |-> FALSE, before |-> <<>>]

\* No pair of models under copy_weights.
CopyIdle ==
    /\ this_layers = <<>>
    /\ other_layers = <<>>
    /\ copy = NoCopy

\* Python's None where an optimizer is expected; optimizers are named by threshold.
NoneOptimizer == -1

\* Python's None where a learning rate is expected.
NoneLr == [entry |-> -1, at |-> -1]

EmptyDict == [t \in {} |-> 0]

NoQuery == [fn |-> "", epoch |-> 0, optimizer |-> NoneOptimizer, lr |-> NoneLr, raised |-> ""]

\* No OptimizerSchedule.
ScheduleIdle ==
    /\ arg = [bare |-> FALSE, conf |-> 0, params |-> EmptyDict]
    /\ params = EmptyDict
    /\ optimizers = EmptyDict
    /\ pc = "idle"
    /\ phase = ""
    /\ epoch = 0
    /\ active = NoneOptimizer
    /\ lr = NoneLr
    /\ query = NoQuery

\* No model under inject_layers.
InjectIdle ==
    /\ layers = [m \in ModelIds |-> <<>>]
    /\ next_uuid = 1
    /\ call = NoCall
    /\ generated = <<>>

----------------------------------------------------------------------------
(* Actions *)

\* Model.inject_layers on model m.
InjectLayers(m, additional_layers, predecessor) ==
    LET inject_uuid == uuid1(next_uuid)
        r == inject_layers(layers[m], additional_layers, predecessor, inject_uuid)
    IN /\ UNCHANGED copyVars
       /\ UNCHANGED scheduleVars
       /\ layers' = [layers EXCEPT ![m] = r.layers]
       /\ next_uuid' = next_uuid + 1
       /\ generated' = generated \o r.new_names
       /\ call' = [model |-> m, before |-> layers[m],
                   additional_layers |-> additional_layers,
                   predecessor |-> predecessor, inject_uuid |-> inject_uuid,
                   outcome |-> r.outcome, last_new_layer |-> r.last_new_layer]

InitInject ==
    /\ layers \in { [m \in ModelIds |-> IF m = 1 THEN g ELSE Chain(1)] :
                      g \in UNION {Graphs(k) : k \in 1..MaxLayers} }
    /\ next_uuid = 1
    /\ call = NoCall
    /\ generated = <<>>
    /\ CopyIdle
    /\ ScheduleIdle

\* One inject_layers call on a freshly constructed model.
NextInject ==
    /\ next_uuid = 1
    /\ \E predecessor \in NamesOf(layers[1]) \cup {AbsentName} :
       \E additional_layers \in Templates(DeclNames, Entries(layers[1]), MaxTemplate) :
            InjectLayers(1, additional_layers, predecessor)

SpecInject == InitInject /\ [][NextInject]_vars

----------------------------------------------------------------------------
(* Chained injections: several calls, on either model, each stacking a       *)
(* template whose first layer consumes PREDECESSOR and whose later layers    *)
(* consume the layer declared before them.                                   *)

\* Declared names of stacked layers; "X-0" ends the way a generated name does.
ChainDecl == {<<"X">>, <<"X", "0">>}

Stack(names) ==
    [i \in 1..Len(names) |->
        [name |-> names[i],
         inbound |-> IF i = 1 THEN <<PREDECESSOR>> ELSE <<names[i - 1]>>]]

Stacks == {Stack(names) : names \in UNION {[1..n -> ChainDecl] : n \in 0..MaxTemplate}}

InitChain ==
    /\ layers = [m \in ModelIds |-> IF m = 1 THEN Chain(MaxLayers) ELSE Chain(1)]
    /\ next_uuid = 1
    /\ call = NoCall
    /\ generated = <<>>
    /\ CopyIdle
    /\ ScheduleIdle

NextChain ==
    /\ next_uuid <= MaxCalls
    /\ \E m \in ModelIds :
       \E predecessor \in {layers[m][1].name, layers[m][Len(layers[m])].name} :
       \E additional_layers \in Stacks :
            InjectLayers(m, additional_layers, predecessor)

SpecChain == InitChain /\ [][NextChain]_vars

----------------------------------------------------------------------------
(* Model.copy_weights *)

Min(a, b) == IF a <= b THEN a ELSE b

\* model.py:171-177 with a mismatch always ending the scan.
RECURSIVE copy_weights_always_break(_, _, _, _)
copy_weights_always_break(this, other, early_stop, i) ==
    IF i > Min(Len(this), Len(other)) THEN this
    ELSE IF this[i].name # other[i].name THEN this
    ELSE copy_weights_always_break([this EXCEPT ![i].weights = other[i].weights],
                                   other, early_stop, i + 1)

\* model.py:171-177, the loop over zip(self._model.layers, other_model._model.layers)
\* from pair i on; the result is self._model.layers afterwards.
RECURSIVE copy_weights(_, _, _, _)
copy_weights(this, other, early_stop, i) ==
    IF i > Min(Len(this), Len(other)) THEN this
    ELSE IF this[i].name # other[i].name
         THEN IF early_stop THEN this
              ELSE copy_weights(this, other, early_stop, i + 1)
         ELSE copy_weights([this EXCEPT ![i].weights = other[i].weights],
                           other, early_stop, i + 1)

CopyWeights(early_stop) ==
    /\ ~copy.done
    /\ this_layers' = copy_weights(this_layers, other_layers, early_stop, 1)
    /\ copy' = [done |-> TRUE, early_stop |-> early_stop, before |-> this_layers]
    /\ UNCHANGED other_layers
    /\ UNCHANGED injectVars
    /\ UNCHANGED scheduleVars

\* Layer names of the two models under copy_weights.
CopyNames == {LayerName(1), LayerName(2), LayerName(3), <<"X">>}

UniqueNameSeqs ==
    { f \in UNION {[1..k -> CopyNames] : k \in 0..MaxLayers} :
        \A a, b \in DOMAIN f : f[a] = f[b] => a = b }

\* The layers of a model: unique names, each layer with weights of its own.
ModelLayers(owner) ==
    { [i \in DOMAIN names |->
        [name |-> names[i], weights |-> [owner |-> owner, layer |-> i]]] :
      names \in UniqueNameSeqs }

InitCopy ==
    /\ InjectIdle
    /\ ScheduleIdle
    /\ this_layers \in ModelLayers("this")
    /\ other_layers \in ModelLayers("other")
    /\ copy = NoCopy

NextCopy == \E early_stop \in BOOLEAN : CopyWeights(early_stop)

SpecCopy == InitCopy /\ [][NextCopy]_vars

----------------------------------------------------------------------------
(* OptimizerSchedule *)

\* sorted(keys, reverse=True)
RECURSIVE SortedReverse(_)
SortedReverse(keys) ==
    IF keys = {} THEN <<>>
    ELSE LET m == CHOOSE x \in keys : \A y \in keys : y <= x
         IN <<m>> \o SortedReverse(keys \ {m})

\* sorted(keys)
RECURSIVE SortedAscending(_)
SortedAscending(keys) ==
    IF keys = {} THEN <<>>
    ELSE LET m == CHOOSE x \in keys : \A y \in keys : x <= y
         IN <<m>> \o SortedAscending(keys \ {m})

\* for thresh in order: if epoch >= thresh: return ...; None when the loop ends.
RECURSIVE FirstAtMost(_, _, _)
FirstAtMost(order, ep, i) ==
    IF i > Len(order) THEN NoneOptimizer
    ELSE IF ep >= order[i] THEN order[i]
    ELSE FirstAtMost(order, ep, i + 1)

\* model.py:66-69; the result is the key of the entry returned, or None.
_params_scheduler(ps, ep) == FirstAtMost(SortedReverse(DOMAIN ps), ep, 1)

\* model.py:71-74 scanning the thresholds in ascending order.
_opt_scheduler_ascending(opts, ep) == FirstAtMost(SortedAscending(DOMAIN opts), ep, 1)

\* model.py:71-74; an optimizer is named by its threshold.
_opt_scheduler(opts, ep) == FirstAtMost(SortedReverse(DOMAIN opts), ep, 1)

\* model.py:76-81, OptimizerSchedule.__getitem__
__getitem__(opts, ep) == _opt_scheduler(opts, ep)

\* model.py:88-90, the loop over learning_rate.items() in declaration order.
RECURSIVE LastAtMost(_, _, _, _)
LastAtMost(items, ep, i, value) ==
    IF i > Len(items) THEN value
    ELSE LastAtMost(items, ep, i + 1, IF ep >= items[i][1] THEN items[i][2] ELSE value)

\* model.py:83-93; params['config'] on None raises TypeError.
_lr_scheduler(ps, ep) ==
    LET thresh == _params_scheduler(ps, ep)
    IN  IF thresh = NoneOptimizer THEN [raised |-> "TypeError", lr |-> NoneLr]
        ELSE LET learning_rate == ps[thresh].learning_rate
             IN IF learning_rate.is_dict
                THEN [raised |-> "", lr |-> LastAtMost(learning_rate.items, ep, 1, NoneLr)]
                ELSE [raised |-> "", lr |-> learning_rate.scalar]

\* model.py:62, lr[min(lr.keys())]
AtMinKey(items) ==
    LET k == CHOOSE a \in 1..Len(items) : \A b \in 1..Len(items) : items[a][1] <= items[b][1]
    IN items[k][2]

\* model.py:56-57, a bare optimizer config becomes the schedule {0: config}.
init_params(a) == IF a.bare THEN [t \in {0} |-> a.conf] ELSE a.params

\* model.py:58-63, one optimizer per threshold, built with a scalar learning rate.
init_optimizers(ps) ==
    [t \in DOMAIN ps |->
        [learning_rate |->
            IF ps[t].learning_rate.is_dict THEN AtMinKey(ps[t].learning_rate.items)
            ELSE ps[t].learning_rate.scalar]]

\* The learning rate an optimizer object carries when it is compiled in.
OptimizerLr(opts, o) == IF o = NoneOptimizer THEN NoneLr ELSE opts[o].learning_rate

\* model.py:41-46 with the test made on the epoch that just completed.
on_epoch_end_this_epoch(ps, opts, current, ep) ==
    IF ep \in DOMAIN ps THEN __getitem__(opts, ep) ELSE current

\* model.py:41-46; the result is the optimizer the model is compiled with afterwards.
on_epoch_end(ps, opts, current, ep) ==
    IF ep + 1 \in DOMAIN ps THEN __getitem__(opts, ep + 1) ELSE current

\* OptimizerSchedule.__init__, model.py:51-64
Construct ==
    /\ pc = "new"
    /\ params' = init_params(arg)
    /\ optimizers' = init_optimizers(init_params(arg))
    /\ pc' = "constructed"
    /\ UNCHANGED <<arg, phase, epoch, active, lr, query>>
    /\ UNCHANGED injectVars
    /\ UNCHANGED copyVars

\* OptimizerSchedule.__getitem__ called outside fit.
GetItem(ep) ==
    /\ pc \in {"constructed", "trained"}
    /\ query' = [fn |-> "getitem", epoch |-> ep, optimizer |-> __getitem__(optimizers, ep),
                 lr |-> NoneLr, raised |-> ""]
    /\ UNCHANGED <<arg, params, optimizers, pc, phase, epoch, active, lr>>
    /\ UNCHANGED injectVars
    /\ UNCHANGED copyVars

\* OptimizerSchedule._lr_scheduler called outside fit.
LrScheduler(ep) ==
    /\ pc \in {"constructed", "trained"}
    /\ LET r == _lr_scheduler(params, ep)
       IN query' = [fn |-> "lr_scheduler", epoch |-> ep, optimizer |-> NoneOptimizer,
                    lr |-> r.lr, raised |-> r.raised]
    /\ UNCHANGED <<arg, params, optimizers, pc, phase, epoch, active, lr>>
    /\ UNCHANGED injectVars
    /\ UNCHANGED copyVars

\* Model.fit, model.py:196-200: compile with the epoch-0 optimizer, then train.
FitCompile ==
    /\ pc = "constructed"
    /\ active' = __getitem__(optimizers, 0)
    /\ lr' = OptimizerLr(optimizers, __getitem__(optimizers, 0))
    /\ pc' = "training"
    /\ phase' = "begin"
    /\ epoch' = 0
    /\ UNCHANGED <<arg, params, optimizers, query>>
    /\ UNCHANGED injectVars
    /\ UNCHANGED copyVars

\* The LearningRateScheduler callback of model.py:64 at the start of an epoch:
\* the learning rate looked up is pushed into the active optimizer; fit ends
\* with the exception when the lookup raises or returns None.
EpochBegin ==
    /\ pc = "training"
    /\ phase = "begin"
    /\ LET r == _lr_scheduler(params, epoch)
       IN IF r.raised # "" \/ r.lr = NoneLr
          THEN /\ pc' = "failed"
               /\ UNCHANGED <<phase, lr>>
          ELSE /\ lr' = r.lr
               /\ phase' = "end"
               /\ UNCHANGED pc
    /\ UNCHANGED <<arg, params, optimizers, epoch, active, query>>
    /\ UNCHANGED injectVars
    /\ UNCHANGED copyVars

\* OptimizerSchedulerCallback.on_epoch_end(epoch), then the next epoch or the
\* end of fit (model.py:201-209).
EpochEnd ==
    /\ pc = "training"
    /\ phase = "end"
    /\ LET optimizer == on_epoch_end(params, optimizers, active, epoch)
       IN /\ active' = optimizer
          /\ lr' = IF optimizer = active THEN lr ELSE OptimizerLr(optimizers, optimizer)
    /\ epoch' = epoch + 1
    /\ IF epoch + 1 >= MaxEpochs
       THEN pc' = "trained" /\ phase' = ""
       ELSE pc' = "training" /\ phase' = "begin"
    /\ UNCHANGED <<arg, params, optimizers, query>>
    /\ UNCHANGED injectVars
    /\ UNCHANGED copyVars

Thresholds == 0..MaxThreshold

\* The declaration orders of the keys of a nested learning-rate map.
NestedOrders ==
    { f \in UNION {[1..n -> Thresholds] : n \in 1..MaxNested} :
        \A a, b \in DOMAIN f : f[a] = f[b] => a = b }

\* A learning rate of the entry at threshold t: the scalar, or the map whose keys
\* are declared in the given order.  Every value differs from every other.
ScalarRate(t) ==
    [is_dict |-> FALSE, scalar |-> [entry |-> t, at |-> -1], items |-> <<>>]

NestedRate(t, order) ==
    [is_dict |-> TRUE, scalar |-> NoneLr,
     items |-> [i \in DOMAIN order |-> <<order[i], [entry |-> t, at |-> order[i]]>>]]

\* The params arguments: a bare optimizer config, or a threshold map whose
\* entries all have learning rates of one shape.
Args ==
    {[bare |-> TRUE, conf |-> [learning_rate |-> ScalarRate(0)], params |-> EmptyDict]}
    \cup
    {[bare |-> TRUE, conf |-> [learning_rate |-> NestedRate(0, order)], params |-> EmptyDict] :
        order \in NestedOrders}
    \cup
    {[bare |-> FALSE, conf |-> 0,
      params |-> [t \in keys |-> [learning_rate |-> ScalarRate(t)]]] :
        keys \in SUBSET Thresholds}
    \cup
    {[bare |-> FALSE, conf |-> 0,
      params |-> [t \in keys |-> [learning_rate |-> NestedRate(t, order)]]] :
        keys \in SUBSET Thresholds, order \in NestedOrders}

InitSchedule ==
    /\ InjectIdle
    /\ CopyIdle
    /\ arg \in Args
    /\ params = EmptyDict
    /\ optimizers = EmptyDict
    /\ pc = "new"
    /\ phase = ""
    /\ epoch = 0
    /\ active = NoneOptimizer
    /\ lr = NoneLr
    /\ query = NoQuery

NextSchedule ==
    \/ Construct
    \/ \E ep \in 0..MaxEpochs : GetItem(ep)
    \/ \E ep \in 0..MaxEpochs : LrScheduler(ep)
    \/ FitCompile
    \/ EpochBegin
    \/ EpochEnd

SpecSchedule == InitSchedule /\ [][NextSchedule]_vars

----------------------------------------------------------------------------
(* Properties of inject_layers *)

CallMade == call.outcome # "none"

\* The position of the anchor in the graph the last call started from.
Anchor == AnchorIndex(call.before, call.predecessor)

NewCount == Len(call.additional_layers)

\* The generated name of the last template layer of the last call.
TailName == new_name(call.additional_layers[NewCount].name, call.inject_uuid, NewCount - 1)

UniqueNames(ls) ==
    \A a, b \in 1..Len(ls) : ls[a].name = ls[b].name => a = b

\* Every inbound entry names a layer placed strictly earlier.
ValidGraph(ls) ==
    /\ UniqueNames(ls)
    /\ \A k \in 1..Len(ls) : \A j \in 1..Len(ls[k].inbound) :
          \E q \in 1..(k - 1) : ls[q].name = ls[k].inbound[j]

\* No inbound entry names a layer that appears later or that is absent.
NoLaterOrAbsent(ls) ==
    \A k \in 1..Len(ls) : \A j \in 1..Len(ls[k].inbound) :
        /\ \E q \in 1..Len(ls) : ls[q].name = ls[k].inbound[j]
        /\ ~ \E q \in (k + 1)..Len(ls) : ls[q].name = ls[k].inbound[j]

\* C1: with the anchor present and a non-empty template, the layers up to and
\* including the anchor are unchanged, the template's layers follow the anchor,
\* and in every original layer after the anchor each inbound entry equal to the
\* anchor's name is the generated name of the last inserted layer (the tail,
\* which is also the value returned) while every other entry is unchanged.
C1_TailSubstitution ==
    (CallMade /\ Anchor > 0 /\ NewCount > 0) =>
        LET after == layers[call.model]
            before == call.before
            p == Anchor
            n == NewCount
        IN /\ call.outcome = "returned"
           /\ call.last_new_layer = TailName
           /\ Len(after) = Len(before) + n
           /\ after[p + n].name = TailName
           /\ \A k \in 1..p : after[k] = before[k]
           /\ \A k \in (p + 1)..Len(before) :
                /\ after[k + n].name = before[k].name
                /\ Len(after[k + n].inbound) = Len(before[k].inbound)
                /\ \A j \in 1..Len(before[k].inbound) :
                      after[k + n].inbound[j] =
                          IF before[k].inbound[j] = call.predecessor
                          THEN TailName ELSE before[k].inbound[j]

\* A -> B -> C with [X: [PREDECESSOR], Y: [X]] injected after A.
C1_Witness ==
    /\ CallMade
    /\ call.before = Chain(3)
    /\ call.predecessor = LayerName(1)
    /\ NewCount = 2
    /\ call.additional_layers[1].inbound = <<PREDECESSOR>>
    /\ call.additional_layers[2].inbound = <<call.additional_layers[1].name>>
    /\ call.additional_layers[2].name # call.additional_layers[1].name
    /\ Len(layers[call.model]) = 5
    /\ layers[call.model][2].inbound = <<LayerName(1)>>
    /\ layers[call.model][3].inbound = <<layers[call.model][2].name>>
    /\ layers[call.model][4] = [name |-> LayerName(2), inbound |-> <<TailName>>]
    /\ layers[call.model][5] = [name |-> LayerName(3), inbound |-> <<LayerName(2)>>]

\* The template entries the claim admits: PREDECESSOR, an existing layer's name,
\* or the declared name of another layer of the template.
TemplateAsClaimed ==
    \A i \in 1..NewCount : \A j \in 1..Len(call.additional_layers[i].inbound) :
        LET e == call.additional_layers[i].inbound[j]
        IN \/ e = PREDECESSOR
           \/ e \in NamesOf(call.before)
           \/ \E q \in (1..NewCount) \ {i} : call.additional_layers[q].name = e

\* The template entries that resolve: PREDECESSOR, the name of a layer placed at
\* or before the anchor, or the declared name of an earlier layer of the template.
TemplateResolves ==
    \A i \in 1..NewCount : \A j \in 1..Len(call.additional_layers[i].inbound) :
        LET e == call.additional_layers[i].inbound[j]
        IN \/ e = PREDECESSOR
           \/ \E q \in 1..Anchor : call.before[q].name = e
           \/ \E q \in 1..(i - 1) : call.additional_layers[q].name = e

C9_AsClaimed ==
    (CallMade /\ Anchor > 0 /\ NewCount = 0) =>
        /\ call.outcome = "returned"
        /\ layers[call.model] = call.before

\* C6: the names generated by all calls so far are pairwise distinct, and the
\* layer names of every model are unique.
C6_GeneratedNamesUnique ==
    /\ \A a, b \in 1..Len(generated) : generated[a] = generated[b] => a = b
    /\ \A m \in ModelIds : UniqueNames(layers[m])

\* Two calls, the later one with twice the same declared name, on model 2 after
\* model 1 has been injected into.
C6_Witness ==
    /\ next_uuid >= 3
    /\ call.outcome = "returned"
    /\ call.model = 2
    /\ NewCount = 2
    /\ call.additional_layers[1].name = call.additional_layers[2].name
    /\ Len(generated) > NewCount
    /\ \E k \in 1..Len(layers[1]) : layers[1][k].name[1] = "autogenerated"

----------------------------------------------------------------------------
(* Properties of copy_weights *)

\* The positions both models have.
Paired == 1..Min(Len(copy.before), Len(other_layers))

SameName(i) == copy.before[i].name = other_layers[i].name

\* The positions the claim says are copied.
ExpectedCopied ==
    IF copy.early_stop
    THEN {i \in Paired : \A j \in 1..i : SameName(j)}
    ELSE {i \in Paired : SameName(i)}

\* C5: the layers are paired by position; without early_stop exactly the
\* positions whose two names are equal receive the other model's weights, with
\* early_stop exactly the positions before the first mismatch; every other layer
\* keeps its weights, and no name changes.
C5_LockstepCopy ==
    copy.done =>
        /\ Len(this_layers) = Len(copy.before)
        /\ \A i \in 1..Len(this_layers) :
              /\ this_layers[i].name = copy.before[i].name
              /\ this_layers[i].weights =
                    IF i \in ExpectedCopied THEN other_layers[i].weights
                    ELSE copy.before[i].weights

\* Source [A, B, C], destination [A, X, C], no early stop: positions 1 and 3.
C5_Witness ==
    /\ copy.done
    /\ ~copy.early_stop
    /\ [i \in 1..Len(other_layers) |-> other_layers[i].name]
            = <<LayerName(1), LayerName(2), LayerName(3)>>
    /\ [i \in 1..Len(this_layers) |-> this_layers[i].name]
            = <<LayerName(1), <<"X">>, LayerName(3)>>
    /\ {i \in 1..3 : this_layers[i].weights.owner = "other"} = {1, 3}

----------------------------------------------------------------------------
(* Properties of OptimizerSchedule *)

\* The greatest threshold of keys that is at most ep.
GreatestAtMost(keys, ep) ==
    CHOOSE t \in keys : t <= ep /\ \A u \in keys : u <= ep => u <= t

HasAtMost(keys, ep) == \E t \in keys : t <= ep

NestedKeys(learning_rate) ==
    {learning_rate.items[i][1] : i \in 1..Len(learning_rate.items)}

\* C3: on a schedule with a threshold-0 entry, OptimizerSchedule[epoch] is the
\* optimizer of the entry with the greatest threshold at most epoch.
C3_GreatestThresholdOptimizer ==
    (query.fn = "getitem" /\ 0 \in DOMAIN optimizers) =>
        query.optimizer = GreatestAtMost(DOMAIN optimizers, query.epoch)

\* Thresholds {0, 2, 3}: a lookup between two thresholds and one past the last.
C3_Witness ==
    /\ query.fn = "getitem"
    /\ DOMAIN optimizers = {0, 2, 3}
    /\ \/ query.epoch = 1 /\ query.optimizer = 0
       \/ query.epoch = 4 /\ query.optimizer = 3

\* C4 as claimed: _lr_scheduler returns, of the top-level entry with the greatest
\* threshold at most epoch, the scalar learning rate, or the value at the
\* greatest nested threshold at most epoch whatever the declaration order.
C4_AsClaimed ==
    (query.fn = "lr_scheduler" /\ HasAtMost(DOMAIN params, query.epoch)) =>
        LET t == GreatestAtMost(DOMAIN params, query.epoch)
            learning_rate == params[t].learning_rate
        IN  IF ~learning_rate.is_dict
            THEN query.lr = learning_rate.scalar
            ELSE HasAtMost(NestedKeys(learning_rate), query.epoch) =>
                    query.lr = [entry |-> t,
                                at |-> GreatestAtMost(NestedKeys(learning_rate), query.epoch)]

\* C7 as claimed: a threshold map without a threshold-0 entry is never turned
\* into a schedule object.
C7_AsClaimed ==
    (~arg.bare /\ 0 \notin DOMAIN arg.params) => pc \notin {"constructed", "training", "trained"}

\* The optimizer fit is training with during the current epoch.
C10_ActiveIsLookup ==
    (pc \in {"training", "trained"} /\ 0 \in DOMAIN optimizers) =>
        active = GreatestAtMost(DOMAIN optimizers, epoch)

\* During fit the active optimizer changes exactly on the steps that end an
\* epoch whose successor is a key of the top-level threshold map.
C10_ChangesOnlyAtThreshold ==
    pc = "training" =>
        ((active' # active) <=> (epoch' = epoch + 1 /\ (epoch + 1) \in DOMAIN params))

\* C10: throughout a fit run that compiled the epoch-0 optimizer, the active
\* optimizer of every epoch e is the one the lookup returns for e, and it
\* changes only at the end of an epoch e with e + 1 a top-level threshold.
C10_SwitchAtThresholds ==
    [] C10_ActiveIsLookup /\ [][C10_ChangesOnlyAtThreshold]_vars

\* A run that switched optimizer at an earlier boundary and then kept it across
\* a boundary that is no threshold.
C10_Witness ==
    /\ pc = "training"
    /\ 0 \in DOMAIN optimizers
    /\ active > 0
    /\ active < epoch
    /\ epoch \notin DOMAIN params

=============================================================================
